---------------------------- MODULE Spec2Model ----------------------------
(***************************************************************************)
(* xnumon audit-record decoder: auevent_create / auevent_fread /           *)
(* auevent_fprint / auevent_destroy (src/auevent.c).  One event is         *)
(* created, one record is read from the audit pipe and its tokens are      *)
(* interpreted one by one into the event; the caller may print the event,  *)
(* destroys it and creates it again for the next record.                   *)
(*                                                                         *)
(* The model covers the default build (DEBUG_AUDITPIPE and                 *)
(* RADAR43063872_FIXED undefined) with assertions either compiled in or    *)
(* compiled out (NDEBUG).                                                  *)
(***************************************************************************)
EXTENDS Integers, Sequences, FiniteSets, TLC

(***************************************************************************)
(* Bounds of the model.                                                    *)
(***************************************************************************)
\* longest record, in tokens
MaxTokens == 3

(***************************************************************************)
(* Capacities of the event's fixed arrays.                                 *)
(***************************************************************************)
\* ev->args[]: declared in auevent.h; the specification gives "N, e.g. 32"
ArgsCap == 32
\* ev->text[], ev->path[], ev->attr[]: declared in auevent.h, capacity 4
TextCap == 4
PathCap == 4
AttrCap == 4
\* ev->unk_tokids[]: the loop bound of the default case
UnkCap == 256

\* device id of /dev/null as resolved by auevent_init (a sample value)
devnull == 50331650
\* (dev_t)-1, "no device"
NoDev == -1

(***************************************************************************)
(* Optional values: <<>> is NULL / absent, <<v>> is a present v.           *)
(***************************************************************************)
NULL == <<>>
Some(v) == <<v>>

(***************************************************************************)
(* Strings of the exec vectors are sequences of characters, so that the    *)
(* prefix test of aev_new_prefix is computed.                              *)
(***************************************************************************)
HasPrefix(s, p) ==
    /\ Len(s) >= Len(p)
    /\ \A i \in 1..Len(p) : s[i] = p[i]

DYLD_PREFIX == <<"D", "Y", "L", "D", "_">>

RECURSIVE SelectPrefix(_, _)
SelectPrefix(v, p) ==
    IF v = <<>> THEN <<>>
    ELSE IF HasPrefix(Head(v), p)
         THEN <<Head(v)>> \o SelectPrefix(Tail(v), p)
         ELSE SelectPrefix(Tail(v), p)

(***************************************************************************)
(* auevent_type_in_typelist: linear search of a zero-terminated list.      *)
(* typelist is NULL or Some(list); the list ends with 0.                   *)
(***************************************************************************)
RECURSIVE ScanTypelist(_, _, _)
ScanTypelist(type, list, i) ==
    IF i > Len(list) \/ list[i] = 0 THEN FALSE
    ELSE IF type = list[i] THEN TRUE
    ELSE ScanTypelist(type, list, i + 1)

AlwaysInTypelist(type, typelist) == TRUE

auevent_type_in_typelist(type, typelist) ==
    IF typelist = NULL THEN TRUE
    ELSE ScanTypelist(type, typelist[1], 1)

(***************************************************************************)
(* The zeroed event (auevent_create: bzero).                               *)
(***************************************************************************)
ZeroAddr == [family |-> "AF_UNSPEC", w |-> <<0, 0, 0, 0>>]

ZeroProc == [auid |-> 0, euid |-> 0, egid |-> 0, ruid |-> 0, rgid |-> 0,
             pid |-> 0, sid |-> 0, dev |-> 0, addr |-> ZeroAddr]

ZeroArg == [present |-> FALSE, value |-> 0]

ZeroAttr == [mode |-> 0, uid |-> 0, gid |-> 0, dev |-> 0, ino |-> 0]

\* exit_present is held as the byte of the bool (0 false, 1 true): the
\* store behind args[] can leave another value in it
ZeroEvent ==
    [recbuf           |-> FALSE,
     flags            |-> {},
     type             |-> 0,
     mod              |-> 0,
     tv               |-> [tv_sec |-> 0, tv_nsec |-> 0],
     subject_present  |-> FALSE,
     subject          |-> ZeroProc,
     process_present  |-> FALSE,
     process          |-> ZeroProc,
     args_count       |-> 0,
     args             |-> [i \in 0..(ArgsCap - 1) |-> ZeroArg],
     return_present   |-> FALSE,
     return_error     |-> 0,
     return_value     |-> 0,
     exit_present     |-> 0,
     exit_status      |-> 0,
     exit_return      |-> 0,
     text             |-> [i \in 0..(TextCap - 1) |-> 0],
     path             |-> [i \in 0..(PathCap - 1) |-> 0],
     attr_count       |-> 0,
     attr             |-> [i \in 0..(AttrCap - 1) |-> ZeroAttr],
     execarg          |-> NULL,
     execenv          |-> NULL,
     sockinet_present |-> FALSE,
     sockinet_addr    |-> ZeroAddr,
     sockinet_port    |-> 0,
     unk_tokids       |-> <<>>]


(***************************************************************************)
(* Identity normalisation macros.                                          *)
(***************************************************************************)
\* A token carries its terminal port as an unsigned number of 32 bits
\* (AUT_*32*) or 64 bits (AUT_*64*): here its 16-bit words, the most
\* significant first, four words in both widths (the first two are 0 in a
\* 32-bit token).
WordBase == 65536

PortOf(n) == <<0, 0, n \div WordBase, n % WordBase>>

\* (dev_t)port: the low 32 bits of the port, read as a signed number
dev_t(port) ==
    IF port[3] >= WordBase \div 2
    THEN ((port[3] - WordBase) * WordBase) + port[4]
    ELSE (port[3] * WordBase) + port[4]

\* the comparison is made on the port narrowed to dev_t, and the store into
\* the dev_t field narrows the port again
SET_DEV(tid) ==
    IF dev_t(tid.port) = devnull THEN NoDev ELSE dev_t(tid.port)

\* dst is the destination's current value: the macro leaves it alone
\* when the source address is zero
SET_ADDR(dst, tid) ==
    IF tid.addr # 0
    THEN [family |-> "AF_INET", w |-> [dst.w EXCEPT ![1] = tid.addr]]
    ELSE dst

SET_ADDR_EX(dst, tid) ==
    IF tid.type = "AU_IPv4"
    THEN IF tid.addr[1] # 0
         THEN [family |-> "AF_INET", w |-> [dst.w EXCEPT ![1] = tid.addr[1]]]
         ELSE dst
    ELSE IF tid.type = "AU_IPv6"
         THEN [family |-> "AF_INET6", w |-> tid.addr]
         ELSE dst

(***************************************************************************)
(* Token samples: what au_fetch_tok can hand to the switch.                *)
(***************************************************************************)
HeaderIds == {"AUT_HEADER32", "AUT_HEADER32_EX", "AUT_HEADER64", "AUT_HEADER64_EX"}
HeaderSamples ==
    { [e_type |-> 1, e_mod |-> 8, s |-> 5, ms |-> 7],
      [e_type |-> 2, e_mod |-> 9, s |-> 6, ms |-> 3] }

\* type filters a caller may pass: none, or the zero-terminated list {2, 3}
TypeFilters == { NULL, Some(<<2, 3, 0>>) }

\* ports beyond the range of dev_t: all 32 bits set, and the null device
\* with bit 32 set (a 64-bit port)
PortAllOnes == <<0, 0, WordBase - 1, WordBase - 1>>
PortDevnullHigh == <<0, 1, devnull \div WordBase, devnull % WordBase>>

TidSamples ==
    { [port |-> PortOf(devnull), addr |-> 0],
      [port |-> PortOf(7), addr |-> 167772161],
      [port |-> PortAllOnes, addr |-> 0] }
\* the 64-bit variants carry a port of 64 bits
TidSamples64 ==
    TidSamples \cup { [port |-> PortDevnullHigh, addr |-> 0] }
\* the type tag is AU_IPv4, AU_IPv6 or anything else ("other")
TidExSamples ==
    { [port |-> PortOf(devnull), type |-> "AU_IPv4", addr |-> <<0, 0, 0, 0>>],
      [port |-> PortOf(7), type |-> "AU_IPv6", addr |-> <<1, 2, 3, 4>>],
      [port |-> PortOf(7), type |-> "AU_IPv6", addr |-> <<0, 0, 0, 0>>],
      [port |-> PortOf(devnull), type |-> "other", addr |-> <<9, 0, 0, 0>>] }
\* the identity fields travel with the terminal sample; the pid tells the
\* port of the token
PidOf(port) ==
    CASE port = PortOf(devnull) -> 100
      [] port = PortOf(7) -> 200
      [] port = PortAllOnes -> 300
      [] OTHER -> 400

IdentOf(tid) ==
    IF tid.port = PortOf(devnull)
    THEN [auid |-> 0, euid |-> 501, egid |-> 20, ruid |-> 501, rgid |-> 20,
          pid |-> 100, sid |-> 1, tid |-> tid]
    ELSE [auid |-> 501, euid |-> 0, egid |-> 0, ruid |-> 502, rgid |-> 21,
          pid |-> PidOf(tid.port), sid |-> 2, tid |-> tid]

SubjectIds == {"AUT_SUBJECT32", "AUT_SUBJECT64"}
SubjectExIds == {"AUT_SUBJECT32_EX", "AUT_SUBJECT64_EX"}
ProcessIds == {"AUT_PROCESS32", "AUT_PROCESS64"}
ProcessExIds == {"AUT_PROCESS32_EX", "AUT_PROCESS64_EX"}
\* the terminal samples a legacy variant can carry
TidSamplesOf(id) ==
    IF id \in {"AUT_SUBJECT64", "AUT_PROCESS64"}
    THEN TidSamples64
    ELSE TidSamples

\* argument indices: two inside the array, one at its capacity
ArgNos == {0, 1, ArgsCap}
ArgIds == {"AUT_ARG32", "AUT_ARG64"}
\* the value a sample argument token carries tells its variant
ArgVal(id) == IF id = "AUT_ARG32" THEN 41 ELSE 42

ReturnIds == {"AUT_RETURN32", "AUT_RETURN64"}
ReturnSamples == { [err |-> 0, val |-> 0], [err |-> 2, val |-> 77] }
ExitSamples == { [status |-> 0, ret |-> 0], [status |-> 1, ret |-> 9] }

AttrIds == {"AUT_ATTR32", "AUT_ATTR64"}
AttrSamples == { [mode |-> 420, uid |-> 501, gid |-> 20, fsid |-> 16, nid |-> 99] }

\* the pointer a text or path token yields: it points into ev->recbuf
InRecbuf == 1

STR_DYLD == <<"D", "Y", "L", "D", "_", "X">>
STR_DYLD_Y == <<"D", "Y", "L", "D", "_", "Y">>
STR_PATH == <<"P", "A", "T", "H">>
STR_LS == <<"l", "s">>
ExecArgSamples == { <<STR_LS>> }
\* environments with two DYLD_ entries around another one, and with none
ExecEnvSamples == { <<STR_DYLD, STR_PATH, STR_DYLD_Y>>, <<STR_PATH>> }

\* capture flags a caller may pass
FlagSets == { {}, {"AUEVENT_FLAG_ENV_DYLD"}, {"AUEVENT_FLAG_ENV_FULL"} }

SockFamilies == {"BSM_PF_INET", "BSM_PF_INET6"}
SockSamples32 == { [family |-> f, port |-> 8080, addr |-> <<167772161, 0, 0, 0>>]
                   : f \in SockFamilies }
SockSamples128 == { [family |-> f, port |-> 8080, addr |-> <<1, 2, 3, 4>>]
                    : f \in SockFamilies }

\* token ids without a case in the switch: AUT_INVALID (0, the value of an
\* empty entry of unk_tokids), AUT_OTHER_FILE32, AUT_IPC
UnknownIds == {0, 17, 34}

ntohs_big_endian(x) == x

\* ntohs on a little-endian host
ntohs(x) == ((x % 256) * 256) + ((x \div 256) % 256)

(***************************************************************************)
(* Token families; a record mixes header/trailer tokens with the tokens    *)
(* of at most two families.                                                *)
(***************************************************************************)
Families == {"ident", "args", "lists", "exec", "misc"}
Profiles == { {f, g} : f \in Families, g \in Families }

\* the longest record of a profile: records of list tokens are long enough
\* to exceed a capacity behind a header
MaxLen(p) ==
    IF "lists" \in p /\ p \subseteq {"lists", "exec"}
    THEN TextCap + 2
    ELSE MaxTokens


(***************************************************************************)
(* State.                                                                  *)
(*   pc      where the caller stands: "created" (after auevent_create),    *)
(*           "loop" (inside the token loop of auevent_fread), "returned",  *)
(*           "printed" (after auevent_fprint), "destroyed" and             *)
(*           "destroyed_twice" (after one and after repeated               *)
(*           auevent_destroy), "aborted" (the process was ended by         *)
(*           abort() or by a fault)                                        *)
(*   rv      the value auevent_fread returned, meaningful when returned    *)
(*   exitAt  the statement through which auevent_fread was left            *)
(*   ev      the audit_event_t                                             *)
(*   recpos, reclen, textc, pathc   the locals of auevent_fread (in tokens)*)
(*   aues, flags   the arguments of auevent_fread                          *)
(*   ndebug  whether the build compiles assert() out                       *)
(*   errno   the C library's errno ("0" or "ENOMEM")                       *)
(*   profile the token families the record draws from                      *)
(*   oob     whether a store went beyond the end of ev->args               *)
(*   seen    what the tokens decoded so far were (history): the number of  *)
(*           text, path and attribute tokens, the fields for which a       *)
(*           second token arrived (dup), those whose stored value a second *)
(*           token replaced by another value (over), whether an allocation *)
(*           failed, the entries of the last exec_env token that was       *)
(*           captured (env) and whether its allocation failed (envfail),   *)
(*           the ids of the tokens without a case, in order (unk)          *)
(*   heap    the blocks the event owns: how many of each kind are          *)
(*           allocated and not yet freed, and the heap errors so far       *)
(*   out     the labels of the line auevent_fprint wrote last, or NULL     *)
(*   outdev  the terminal devices shown in that line, or NULL              *)
(*   sock    a call of auevent_sock_domain or auevent_sock_type: the       *)
(*           function, its argument and, once it returned, its result      *)
(*   cs      a call of codesign_new: its position, the object it builds,   *)
(*           the CoreFoundation objects it holds and what it returned      *)
(***************************************************************************)
VARIABLES pc, rv, exitAt, ev, recpos, reclen, textc, pathc,
          aues, flags, ndebug, errno, profile, oob, seen, heap, out,
          outdev, sock, cs

vars == <<pc, rv, exitAt, ev, recpos, reclen, textc, pathc,
          aues, flags, ndebug, errno, profile, oob, seen, heap, out,
          outdev, sock, cs>>

args_in == <<aues, flags, ndebug, profile>>

\* the calls that do not touch the event
aside == <<sock, cs>>

(***************************************************************************)
(* The heap, as far as the event owns blocks of it: the record buffer of   *)
(* au_read_rec and the vectors of aev_new / aev_new_prefix.                *)
(***************************************************************************)
Kinds == {"recbuf", "execarg", "execenv"}

NoHeap == [live |-> [k \in Kinds |-> 0], err |-> {}]

malloc(h, kind) == [h EXCEPT !.live[kind] = @ + 1]

\* free() of a pointer to a block of this kind; a pointer whose block is
\* gone is freed a second time
free(h, kind) ==
    IF h.live[kind] = 0
    THEN [h EXCEPT !.err = @ \cup {"double_free"}]
    ELSE [h EXCEPT !.live[kind] = @ - 1]

\* no line was written: no terminal device is shown
NoDevShown == [subject |-> NULL, process |-> NULL]

\* no call of auevent_sock_domain / auevent_sock_type is under way
NoSock == [fn |-> "none", in |-> 0, out |-> NULL]

\* the CoreFoundation objects codesign_new acquires, and the blocks of
\* memory a codesign_t owns
CfKinds == {"url", "scode", "designated_req", "dict", "s"}

CsBlocks == {"cs", "ident", "cdhash", "teamid", "devid"}

\* the frame of codesign_new at its entry: nothing allocated, nothing held
CodesignEntry ==
    [pc |-> "malloc", obj |-> NULL, rv |-> "errSecSuccess",
     cf |-> [k \in CfKinds |-> "none"], blocks |-> [b \in CsBlocks |-> 0],
     err |-> {}, ret |-> "none", allocfail |-> FALSE, valid |-> FALSE,
     identstr |-> FALSE, sat |-> {}]

\* no call of codesign_new is under way
NoCodesign == [CodesignEntry EXCEPT !.pc = "none"]

NothingSeen ==
    [text |-> 0, path |-> 0, attr |-> 0, dup |-> {}, over |-> {},
     allocfail |-> FALSE, env |-> NULL, envfail |-> FALSE, unk |-> <<>>]

\* the event after auevent_create and the arguments of the call to come
InitEvent ==
    /\ pc = "created"
    /\ rv = 0
    /\ exitAt = "none"
    /\ ev = ZeroEvent
    /\ recpos = 0
    /\ reclen = 0
    /\ textc = 0
    /\ pathc = 0
    /\ profile \in Profiles
    /\ aues \in TypeFilters
    /\ flags \in (IF "exec" \in profile THEN FlagSets ELSE {{}})
    /\ errno \in (IF "exec" \in profile THEN {"0", "ENOMEM"} ELSE {"0"})
    /\ ndebug \in BOOLEAN
    /\ oob = FALSE
    /\ seen = NothingSeen
    /\ heap = NoHeap
    /\ out = NULL
    /\ outdev = NoDevShown

Init ==
    /\ InitEvent
    /\ sock = NoSock
    /\ cs = NoCodesign

Max(a, b) == IF a > b THEN a ELSE b

(***************************************************************************)
(* Leaving auevent_fread.                                                  *)
(***************************************************************************)
\* line 505
Result(e) == IF "AEFLAG_ENOMEM" \in e.flags THEN -1 ELSE 1

BreakNoAdvance(e, tc, pathc2) ==
    /\ ev' = e
    /\ textc' = tc
    /\ pathc' = pathc2
    /\ recpos' = recpos
    /\ pc' = "loop"
    /\ UNCHANGED <<rv, exitAt, reclen, args_in, out, outdev, aside>>

\* a case ended with break: recpos += tok.len, then the loop test
Break(e, tc, pathc2) ==
    /\ ev' = e
    /\ textc' = tc
    /\ pathc' = pathc2
    /\ recpos' = recpos + 1
    /\ IF recpos + 1 < reclen
       THEN /\ pc' = "loop"
            /\ UNCHANGED <<rv, exitAt>>
       ELSE /\ pc' = "returned"
            /\ rv' = Result(e)
            /\ exitAt' = "end"
    /\ UNCHANGED <<reclen, args_in, out, outdev, aside>>

\* goto skip_rec: return 0
SkipRec(e, at) ==
    /\ ev' = e
    /\ pc' = "returned"
    /\ rv' = 0
    /\ exitAt' = at
    /\ UNCHANGED <<recpos, reclen, textc, pathc, args_in, out, outdev, aside>>

\* a failed assert() ends the process
Abort ==
    /\ pc' = "aborted"
    /\ exitAt' = "assert"
    /\ UNCHANGED <<rv, ev, recpos, reclen, textc, pathc, args_in, out, outdev, aside>>

\* the store went past the array and the process faulted
Fault ==
    /\ pc' = "aborted"
    /\ exitAt' = "fault"
    /\ UNCHANGED <<rv, ev, recpos, reclen, textc, pathc, args_in, out, outdev, aside>>

\* assert(cond) fails: assertions are compiled in and cond is false
AssertFails(cond) == ~ndebug /\ ~cond

\* history: a token for a field that is already set (present); replaced says
\* whether the store ran and changed the field
SeenDup(name, present, replaced) ==
    [seen EXCEPT !.dup = IF present THEN @ \cup {name} ELSE @,
                 !.over = IF present /\ replaced THEN @ \cup {name} ELSE @]

(***************************************************************************)
(* auevent_fread, lines 123-130: the record read.                          *)
(***************************************************************************)
ReadErrorIsSkipped ==
    /\ pc = "created"
    /\ \E n \in {-1, 0} \cup (1..MaxLen(profile)) :
         /\ reclen' = n
         /\ IF n <= 0
            THEN /\ pc' = "returned" /\ rv' = 0
                 /\ exitAt' = IF n = 0 THEN "read_empty" ELSE "read_error"
                 /\ ev' = ev
                 /\ heap' = heap
            ELSE /\ pc' = "loop" /\ UNCHANGED <<rv, exitAt>>
                 /\ ev' = [ev EXCEPT !.recbuf = TRUE]
                 /\ heap' = malloc(heap, "recbuf")
    /\ recpos' = 0
    /\ textc' = 0
    /\ pathc' = 0
    /\ UNCHANGED <<args_in, errno, oob, seen, out, outdev,
               aside>>

Read ==
    /\ pc = "created"
    /\ \E n \in {-1, 0} \cup (1..MaxLen(profile)) :
         /\ reclen' = n
         /\ IF n = -1
            THEN /\ pc' = "returned" /\ rv' = -1 /\ exitAt' = "read_error"
                 /\ ev' = ev
                 /\ heap' = heap
            ELSE IF n = 0
            THEN /\ pc' = "returned" /\ rv' = 0 /\ exitAt' = "read_empty"
                 /\ ev' = ev
                 /\ heap' = heap
            ELSE /\ pc' = "loop" /\ UNCHANGED <<rv, exitAt>>
                 /\ ev' = [ev EXCEPT !.recbuf = TRUE]
                 /\ heap' = malloc(heap, "recbuf")
    /\ recpos' = 0
    /\ textc' = 0
    /\ pathc' = 0
    /\ UNCHANGED <<args_in, errno, oob, seen, out, outdev,
               aside>>

InLoop(family) ==
    /\ pc = "loop"
    /\ recpos < reclen
    /\ family \in profile \cup {"frame"}

FetchErrorSkipsToken ==
    /\ InLoop("frame")
    /\ recpos' = recpos + 1
    /\ pc' = IF recpos + 1 < reclen THEN "loop" ELSE "returned"
    /\ rv' = IF recpos + 1 < reclen THEN rv ELSE Result(ev)
    /\ exitAt' = "fetch_error"
    /\ UNCHANGED <<ev, reclen, textc, pathc, args_in, errno, oob, seen, heap, out,
               outdev, aside>>

\* lines 135-144: au_fetch_tok fails
FetchError ==
    /\ InLoop("frame")
    /\ SkipRec(ev, "fetch_error")
    /\ UNCHANGED <<errno, oob, seen, heap>>

(***************************************************************************)
(* Header and trailer, lines 158-196.                                      *)
(***************************************************************************)
\* tv_nsec: the 32-bit headers carry milliseconds, the 64-bit ones are
\* stored as they come
HeaderNsec(id, ms) ==
    IF id \in {"AUT_HEADER32", "AUT_HEADER32_EX"} THEN ms * 1000000 ELSE ms

Header ==
    /\ InLoop("frame")
    /\ \E id \in HeaderIds, h \in HeaderSamples :
         LET e1 == [ev EXCEPT !.type = h.e_type]
             e2 == [e1 EXCEPT !.mod = h.e_mod,
                              !.tv = [tv_sec |-> h.s,
                                      tv_nsec |-> HeaderNsec(id, h.ms)]]
         IN  IF aues # NULL /\ ~auevent_type_in_typelist(e1.type, aues)
             THEN SkipRec(e1, "filter")
             ELSE Break(e2, textc, pathc)
    /\ UNCHANGED <<errno, oob, seen, heap>>

Trailer ==
    /\ InLoop("frame")
    /\ Break(ev, textc, pathc)
    /\ UNCHANGED <<errno, oob, seen, heap>>

(***************************************************************************)
(* Subject and process, lines 198-302.                                     *)
(***************************************************************************)
ProcOf(tok, addr) ==
    [auid |-> tok.auid, euid |-> tok.euid, egid |-> tok.egid,
     ruid |-> tok.ruid, rgid |-> tok.rgid, pid |-> tok.pid, sid |-> tok.sid,
     dev |-> SET_DEV(tok.tid), addr |-> addr]

\* the legacy variants (32, 64) and the extended ones (32_EX, 64_EX)
SubjectStore(e, tok, ex) ==
    [e EXCEPT !.subject_present = TRUE,
              !.subject = ProcOf(tok, IF ex THEN SET_ADDR_EX(e.subject.addr, tok.tid)
                                            ELSE SET_ADDR(e.subject.addr, tok.tid))]

ProcessStore(e, tok, ex) ==
    [e EXCEPT !.process_present = TRUE,
              !.process = ProcOf(tok, IF ex THEN SET_ADDR_EX(e.process.addr, tok.tid)
                                            ELSE SET_ADDR(e.process.addr, tok.tid))]

Subject ==
    /\ InLoop("ident")
    /\ \E ex \in BOOLEAN :
       \E id \in (IF ex THEN SubjectExIds ELSE SubjectIds) :
       \E tid \in (IF ex THEN TidExSamples ELSE TidSamplesOf(id)) :
         /\ IF AssertFails(~ev.subject_present)
            THEN Abort
            ELSE Break(SubjectStore(ev, IdentOf(tid), ex), textc, pathc)
         /\ seen' = SeenDup("subject", ev.subject_present,
                            ev'.subject # ev.subject)
    /\ UNCHANGED <<errno, oob, heap>>

Process ==
    /\ InLoop("ident")
    /\ \E ex \in BOOLEAN :
       \E id \in (IF ex THEN ProcessExIds ELSE ProcessIds) :
       \E tid \in (IF ex THEN TidExSamples ELSE TidSamplesOf(id)) :
         /\ IF AssertFails(~ev.process_present)
            THEN Abort
            ELSE Break(ProcessStore(ev, IdentOf(tid), ex), textc, pathc)
         /\ seen' = SeenDup("process", ev.process_present,
                            ev'.process # ev.process)
    /\ UNCHANGED <<errno, oob, heap>>

(***************************************************************************)
(* Syscall arguments, lines 304-331.  The token's index is an 8-bit        *)
(* number that the code uses as it comes.  A token whose index is not      *)
(* below the capacity of ev->args reads and writes past the array: the     *)
(* assert reads an arbitrary byte, and the store lands in the memory       *)
(* behind the array or the process faults.                                 *)
(***************************************************************************)
ArgInRange(no) == no < ArgsCap

ArgStore(e, no, val) ==
    [e EXCEPT !.args = IF ArgInRange(no)
                       THEN [@ EXCEPT ![no] = [present |-> TRUE, value |-> val]]
                       ELSE @,
              !.args_count = Max(@, no + 1)]

\* The store of lines 307-308 (321-322) at index ArgsCap when the members
\* that follow args[] in the event lie right behind it: .present, one
\* byte, lands on return_present, and the eight bytes of .value land on
\* exit_present (its low byte, which the store leaves there as it is, not
\* as 0 or 1) and exit_status (its upper half, 0 for the
\* values of the samples).  return_error and return_value lie between the
\* two and keep their values.
ArgStoreBehind(e, val) ==
    [e EXCEPT !.return_present = TRUE,
              !.exit_present = val % 256,
              !.exit_status = 0,
              !.args_count = Max(@, ArgsCap + 1)]

Arg ==
    /\ InLoop("args")
    /\ \E id \in ArgIds, no \in ArgNos :
         IF ArgInRange(no)
         THEN /\ IF AssertFails(~ev.args[no].present)
                 THEN Abort
                 ELSE Break(ArgStore(ev, no, ArgVal(id)), textc, pathc)
              /\ seen' = SeenDup("arg", ev.args[no].present,
                                 ev'.args[no] # ev.args[no])
              /\ UNCHANGED oob
         ELSE /\ \/ ~ndebug /\ Abort
                 \/ Fault
                 \/ Break(ArgStore(ev, no, ArgVal(id)), textc, pathc)
                 \/ /\ no = ArgsCap
                    /\ Break(ArgStoreBehind(ev, ArgVal(id)), textc, pathc)
              /\ oob' = TRUE
              /\ UNCHANGED seen
    /\ UNCHANGED <<errno, heap>>

(***************************************************************************)
(* Return and exit, lines 333-344 and 441-446.                             *)
(***************************************************************************)
ReturnStore(e, r) ==
    [e EXCEPT !.return_present = TRUE,
              !.return_error = r.err,
              !.return_value = r.val]

Return ==
    /\ InLoop("args")
    /\ \E id \in ReturnIds, r \in ReturnSamples :
         /\ IF AssertFails(~ev.return_present)
            THEN Abort
            ELSE Break(ReturnStore(ev, r), textc, pathc)
         /\ seen' = SeenDup("return", ev.return_present,
                            <<ev'.return_error, ev'.return_value>>
                              # <<ev.return_error, ev.return_value>>)
    /\ UNCHANGED <<errno, oob, heap>>

\* the values !b can take for the byte b of a bool: a byte that is neither
\* 0 nor 1 reads as true or as false, as the build compiles the negation
BoolNot(b) ==
    CASE b = 0 -> {TRUE}
      [] b = 1 -> {FALSE}
      [] OTHER -> BOOLEAN

ExitStore(e, x) ==
    [e EXCEPT !.exit_present = 1,
              !.exit_status = x.status,
              !.exit_return = x.ret]

Exit ==
    /\ InLoop("args")
    /\ \E x \in ExitSamples, absent \in BoolNot(ev.exit_present) :
         /\ IF AssertFails(absent)
            THEN Abort
            ELSE Break(ExitStore(ev, x), textc, pathc)
         /\ seen' = SeenDup("exit", ev.exit_present # 0,
                            <<ev'.exit_status, ev'.exit_return>>
                              # <<ev.exit_status, ev.exit_return>>)
    /\ UNCHANGED <<errno, oob, heap>>

(***************************************************************************)
(* Text, path and attribute tokens, lines 346-408.                         *)
(***************************************************************************)
TextFullOffByOne(n) == ~(n <= TextCap)

\* !(textc < sizeof(ev->text)/sizeof(ev->text[0]))
TextFull(n) == ~(n < TextCap)
PathFull(n) == ~(n < PathCap)
AttrFull(n) == ~(n < AttrCap)

\* a store at index n of an array
StoreAt(arr, n, v) == [i \in DOMAIN arr |-> IF i = n THEN v ELSE arr[i]]

Text ==
    /\ InLoop("lists")
    /\ IF TextFull(textc)
       THEN SkipRec(ev, "text_full")
       ELSE Break([ev EXCEPT !.text = StoreAt(@, textc, InRecbuf)],
                  textc + 1, pathc)
    /\ seen' = [seen EXCEPT !.text = @ + 1]
    /\ UNCHANGED <<errno, oob, heap>>

Path ==
    /\ InLoop("lists")
    /\ IF PathFull(pathc)
       THEN SkipRec(ev, "path_full")
       ELSE Break([ev EXCEPT !.path = StoreAt(@, pathc, InRecbuf)],
                  textc, pathc + 1)
    /\ seen' = [seen EXCEPT !.path = @ + 1]
    /\ UNCHANGED <<errno, oob, heap>>

AttrOf(a) ==
    [mode |-> a.mode, uid |-> a.uid, gid |-> a.gid, dev |-> a.fsid, ino |-> a.nid]

Attr ==
    /\ InLoop("lists")
    /\ \E id \in AttrIds, a \in AttrSamples :
         IF AttrFull(ev.attr_count)
         THEN SkipRec(ev, "attr_full")
         ELSE Break([ev EXCEPT !.attr = StoreAt(@, ev.attr_count, AttrOf(a)),
                               !.attr_count = @ + 1],
                    textc, pathc)
    /\ seen' = [seen EXCEPT !.attr = @ + 1]
    /\ UNCHANGED <<errno, oob, heap>>

(***************************************************************************)
(* Exec argv and envp, lines 410-439.  aev_new and aev_new_prefix build    *)
(* one heap block holding the vector; ok says whether their allocation     *)
(* succeeds.  They return NULL and set errno to ENOMEM when it fails;      *)
(* aev_new_prefix also returns NULL, errno untouched, when no entry        *)
(* carries the prefix.                                                     *)
(***************************************************************************)
aev_new(v, ok) ==
    IF ok THEN [vec |-> Some(v), enomem |-> FALSE]
          ELSE [vec |-> NULL, enomem |-> TRUE]

aev_new_prefix_all(v, prefix, ok) == aev_new(v, ok)

aev_new_prefix(v, prefix, ok) ==
    LET sel == SelectPrefix(v, prefix)
    IN  IF sel = <<>> THEN [vec |-> NULL, enomem |-> FALSE]
        ELSE IF ok THEN [vec |-> Some(sel), enomem |-> FALSE]
        ELSE [vec |-> NULL, enomem |-> TRUE]

ErrnoAfter(r) == IF r.enomem THEN "ENOMEM" ELSE errno

HeapAfterNoFree(kind, old, r) ==
    IF r.vec # NULL THEN malloc(heap, kind) ELSE heap

\* if (ev->execarg) free(ev->execarg); and the block of the new vector
HeapAfter(kind, old, r) ==
    LET h == IF old # NULL THEN free(heap, kind) ELSE heap
    IN  IF r.vec # NULL THEN malloc(h, kind) ELSE h

\* history: an exec vector was built (or failed to be)
SeenAlloc(name, present, replaced, r) ==
    [SeenDup(name, present, replaced) EXCEPT !.allocfail = @ \/ r.enomem]

ExecArgs ==
    /\ InLoop("exec")
    /\ \E v \in ExecArgSamples, ok \in BOOLEAN :
         IF AssertFails(ev.execarg = NULL)
         THEN /\ Abort
              /\ seen' = SeenDup("execarg", TRUE, FALSE)
              /\ UNCHANGED <<errno, heap>>
         ELSE LET r == aev_new(v, ok)
              IN  /\ errno' = ErrnoAfter(r)
                  /\ heap' = HeapAfter("execarg", ev.execarg, r)
                  /\ seen' = SeenAlloc("execarg", ev.execarg # NULL,
                                        r.vec # ev.execarg, r)
                  /\ Break([ev EXCEPT !.execarg = r.vec,
                                      !.flags = IF r.vec = NULL
                                                THEN @ \cup {"AEFLAG_ENOMEM"}
                                                ELSE @],
                           textc, pathc)
    /\ UNCHANGED oob

EnvCaptured == flags \cap {"AUEVENT_FLAG_ENV_DYLD", "AUEVENT_FLAG_ENV_FULL"} # {}

ExecEnv ==
    /\ InLoop("exec")
    /\ \E v \in ExecEnvSamples, ok \in BOOLEAN :
         IF ~EnvCaptured
         THEN Break(ev, textc, pathc) /\ UNCHANGED <<errno, seen, heap>>
         ELSE IF AssertFails(ev.execenv = NULL)
         THEN /\ Abort
              /\ seen' = SeenDup("execenv", TRUE, FALSE)
              /\ UNCHANGED <<errno, heap>>
         ELSE LET r == IF "AUEVENT_FLAG_ENV_DYLD" \in flags
                       THEN aev_new_prefix(v, DYLD_PREFIX, ok)
                       ELSE aev_new(v, ok)
              IN  /\ errno' = ErrnoAfter(r)
                  /\ heap' = HeapAfter("execenv", ev.execenv, r)
                  /\ seen' = [SeenAlloc("execenv", ev.execenv # NULL,
                                         r.vec # ev.execenv, r)
                                 EXCEPT !.env = Some(v), !.envfail = r.enomem]
                  /\ Break([ev EXCEPT !.execenv = r.vec,
                                      !.flags = IF r.vec = NULL
                                                   /\ ErrnoAfter(r) = "ENOMEM"
                                                THEN @ \cup {"AEFLAG_ENOMEM"}
                                                ELSE @],
                           textc, pathc)
    /\ UNCHANGED oob

(***************************************************************************)
(* Socket tokens, lines 447-484.                                           *)
(***************************************************************************)
SockInet32 ==
    /\ InLoop("misc")
    /\ \E t \in SockSamples32 :
         IF t.family # "BSM_PF_INET"
         THEN Break(ev, textc, pathc)
         ELSE Break([ev EXCEPT
                       !.sockinet_addr = [family |-> "AF_INET",
                                          w |-> [@.w EXCEPT ![1] = t.addr[1]]],
                       !.sockinet_port = ntohs(t.port)],
                    textc, pathc)
    /\ UNCHANGED <<errno, oob, seen, heap>>

SockInet128 ==
    /\ InLoop("misc")
    /\ \E t \in SockSamples128 :
         IF t.family # "BSM_PF_INET6"
         THEN Break(ev, textc, pathc)
         ELSE Break([ev EXCEPT
                       !.sockinet_addr = [family |-> "AF_INET6", w |-> t.addr],
                       !.sockinet_port = t.port],
                    textc, pathc)
    /\ UNCHANGED <<errno, oob, seen, heap>>

SockUnix ==
    /\ InLoop("misc")
    /\ Break(ev, textc, pathc)
    /\ UNCHANGED <<errno, oob, seen, heap>>

(***************************************************************************)
(* Tokens without a case, lines 486-495.  ev->unk_tokids is an array of    *)
(* UnkCap ids whose used entries come first; the model keeps the used      *)
(* entries as a sequence, every entry behind them being 0.                 *)
(***************************************************************************)
RECURSIVE UnkScan(_, _, _)
UnkScan(ids, id, i) ==
    IF i >= UnkCap THEN ids
    ELSE LET entry == IF i < Len(ids) THEN ids[i + 1] ELSE 0
         IN  IF entry = id THEN ids
             ELSE IF entry = 0 THEN Append(ids, id)
             ELSE UnkScan(ids, id, i + 1)

Unknown ==
    /\ InLoop("misc")
    /\ \E id \in UnknownIds :
         /\ Break([ev EXCEPT !.unk_tokids = UnkScan(@, id, 0)], textc, pathc)
         /\ seen' = [seen EXCEPT !.unk = Append(@, id)]
    /\ UNCHANGED <<errno, oob, heap>>

(***************************************************************************)
(* The specification.                                                      *)
(***************************************************************************)
Next ==
    \/ Read
    \/ FetchError
    \/ Header
    \/ Trailer
    \/ Subject
    \/ Process
    \/ Arg
    \/ Return
    \/ Exit
    \/ Text
    \/ Path
    \/ Attr
    \/ ExecArgs
    \/ ExecEnv
    \/ SockInet32
    \/ SockInet128
    \/ SockUnix
    \/ Unknown

Spec == Init /\ [][Next]_vars

(***************************************************************************)
(* auevent_fprint, lines 511-627: the labels of the line it writes, one    *)
(* pair <<label, index>> for each field it prints.  The loop over          *)
(* ev->args runs to args_count; beyond is what the reads past the array    *)
(* found set.                                                              *)
(***************************************************************************)
Label(name, cond) == IF cond THEN {<<name, 0>>} ELSE {}

auevent_fprint(e, beyond) ==
    Label("subject_", e.subject_present)
      \cup Label("process_", e.process_present)
      \cup {<<"args", i>> : i \in {j \in 0..(ArgsCap - 1) :
                                      j < e.args_count /\ e.args[j].present}}
      \cup {<<"args", i>> : i \in beyond}
      \cup Label("return_", e.return_present)
      \cup Label("exit_", e.exit_present # 0)
      \cup {<<"text", i>> : i \in {j \in 0..(TextCap - 1) : e.text[j] # 0}}
      \cup {<<"path", i>> : i \in {j \in 0..(PathCap - 1) : e.path[j] # 0}}
      \cup {<<"attr", i>> : i \in 0..(e.attr_count - 1)}
      \cup Label("execarg", e.execarg # NULL)
      \cup Label("execenv", e.execenv # NULL)
      \cup Label("sockinet", e.sockinet_present)
      \cup Label("unk_tokids", Len(e.unk_tokids) > 0)

\* the text after "/dev/" in subject_tid= and process_tid=, lines 531-532
\* and 552-553: test == -1 ? "-" : sys_ttydevname(dev)
Dash == <<"-">>

sys_ttydevname(dev) == <<"sys_ttydevname", dev>>

\* both blocks test ev->subject.dev (lines 531 and 552)
auevent_fprint_tid(e) ==
    [subject |-> IF e.subject_present
                 THEN Some(IF e.subject.dev = NoDev
                           THEN Dash
                           ELSE sys_ttydevname(e.subject.dev))
                 ELSE NULL,
     process |-> IF e.process_present
                 THEN Some(IF e.subject.dev = NoDev
                           THEN Dash
                           ELSE sys_ttydevname(e.process.dev))
                 ELSE NULL]

\* the caller prints an event that auevent_fread produced.  getauevnum
\* (lines 517-518) finds the event type in the audit_event database, or
\* returns NULL: then the read of aue_ent->ae_name ends the process before
\* any label is written.
Fprint ==
    /\ pc = "returned"
    /\ rv = 1
    /\ \E aue_ent \in BOOLEAN :
         IF aue_ent
         THEN /\ \E beyond \in SUBSET (ArgsCap..(ev.args_count - 1)) :
                   out' = Some(auevent_fprint(ev, beyond))
              /\ outdev' = auevent_fprint_tid(ev)
              /\ pc' = "printed"
         ELSE /\ pc' = "aborted"
              /\ UNCHANGED <<out, outdev>>
    /\ UNCHANGED <<rv, exitAt, ev, recpos, reclen, textc, pathc, args_in,
                   errno, oob, seen, heap, aside>>

(***************************************************************************)
(* auevent_destroy, lines 635-658, and the next auevent_create.            *)
(***************************************************************************)
DestroyedKeepsPointers(e) == e

\* the pointers are set to NULL after their blocks are freed
Destroyed(e) == [e EXCEPT !.recbuf = FALSE, !.execarg = NULL, !.execenv = NULL]

\* if (ev->recbuf) free(ev->recbuf); and so for execarg and execenv
FreeOwned(h, e) ==
    LET h1 == IF e.recbuf THEN free(h, "recbuf") ELSE h
        h2 == IF e.execarg # NULL THEN free(h1, "execarg") ELSE h1
    IN  IF e.execenv # NULL THEN free(h2, "execenv") ELSE h2

Destroy ==
    /\ pc \in {"created", "returned", "printed", "destroyed", "destroyed_twice"}
    /\ heap' = FreeOwned(heap, ev)
    /\ ev' = Destroyed(ev)
    /\ pc' = IF pc \in {"destroyed", "destroyed_twice"}
             THEN "destroyed_twice"
             ELSE "destroyed"
    /\ UNCHANGED <<rv, exitAt, recpos, reclen, textc, pathc, args_in,
                   errno, oob, seen, out, outdev,
               aside>>

\* bzero() forgets the pointers the event still held: their blocks leak
Forgotten(h) ==
    IF \E k \in Kinds : h.live[k] > 0
    THEN [live |-> NoHeap.live, err |-> h.err \cup {"leak"}]
    ELSE h

\* the caller creates the event again for the next record; the frame of
\* the finished call and the line printed for the last event are gone
Create ==
    /\ pc \in {"destroyed", "destroyed_twice"}
    /\ ev' = ZeroEvent
    /\ heap' = Forgotten(heap)
    /\ pc' = "created"
    /\ rv' = 0
    /\ exitAt' = "none"
    /\ recpos' = 0
    /\ reclen' = 0
    /\ textc' = 0
    /\ pathc' = 0
    /\ seen' = NothingSeen
    /\ out' = NULL
    /\ outdev' = NoDevShown
    /\ UNCHANGED <<args_in, errno, oob, aside>>

\* the life of an event: create, read, print, destroy, and again
NextLife ==
    \/ Next
    \/ Fprint
    \/ Destroy
    \/ Create

\* the records of a life draw their tokens from one family
InitLife ==
    /\ Init
    /\ Cardinality(profile) = 1

SpecLife == InitLife /\ [][NextLife]_vars

\* one call that is not suspended: the read and the in-memory loop keep
\* running
SpecFair == InitLife /\ [][Next]_vars /\ WF_vars(Next)

(***************************************************************************)
(* auevent_sock_domain and auevent_sock_type, lines 667-706: the BSM       *)
(* codes of socket domains and socket types mapped back to the local       *)
(* constants.  The values are those of the comments beside each case.      *)
(***************************************************************************)
BSM_PF_UNSPEC == 0
BSM_PF_LOCAL == 1
BSM_PF_INET == 2
BSM_PF_ROUTE == 24
BSM_PF_KEY == 27
BSM_PF_INET6 == 26
BSM_PF_UNKNOWN == 700
PF_UNSPEC == 0
PF_UNIX == 1
PF_INET == 2
PF_ROUTE == 17
PF_KEY == 29
PF_INET6 == 30

BSM_SOCK_DGRAM == 1
BSM_SOCK_STREAM == 2
BSM_SOCK_RAW == 4
BSM_SOCK_RDM == 5
BSM_SOCK_SEQPACKET == 6
BSM_SOCK_UNKNOWN == 500
SOCK_DGRAM == 2
SOCK_STREAM == 1
SOCK_RAW == 3
SOCK_RDM == 4
SOCK_SEQPACKET == 5

auevent_sock_verbatim(code) == code

auevent_sock_domain(bsmdomain) ==
    CASE bsmdomain = BSM_PF_UNSPEC -> PF_UNSPEC
      [] bsmdomain = BSM_PF_LOCAL -> PF_UNIX
      [] bsmdomain = BSM_PF_INET -> PF_INET
      [] bsmdomain = BSM_PF_ROUTE -> PF_ROUTE
      [] bsmdomain = BSM_PF_KEY -> PF_KEY
      [] bsmdomain = BSM_PF_INET6 -> PF_INET6
      [] bsmdomain = BSM_PF_UNKNOWN -> -1
      [] OTHER -> -1

auevent_sock_type(bsmtype) ==
    CASE bsmtype = BSM_SOCK_DGRAM -> SOCK_DGRAM
      [] bsmtype = BSM_SOCK_STREAM -> SOCK_STREAM
      [] bsmtype = BSM_SOCK_RAW -> SOCK_RAW
      [] bsmtype = BSM_SOCK_RDM -> SOCK_RDM
      [] bsmtype = BSM_SOCK_SEQPACKET -> SOCK_SEQPACKET
      [] bsmtype = BSM_SOCK_UNKNOWN -> -1
      [] OTHER -> -1

\* the codes a caller passes: every small integer, some negative, and the
\* BSM codes for "unknown" with their neighbours
MaxSockCode == 40

SockCodes ==
    (-2..MaxSockCode)
      \cup {BSM_SOCK_UNKNOWN - 1, BSM_SOCK_UNKNOWN, BSM_SOCK_UNKNOWN + 1,
            BSM_PF_UNKNOWN - 1, BSM_PF_UNKNOWN, BSM_PF_UNKNOWN + 1}

\* the event and the call of auevent_fread, which these calls leave alone
caller == <<pc, rv, exitAt, ev, recpos, reclen, textc, pathc, aues, flags,
            ndebug, profile, oob, seen, heap, out, outdev>>

InitSock ==
    /\ InitEvent
    /\ profile = {"misc"}
    /\ cs = NoCodesign
    /\ sock \in [fn : {"auevent_sock_domain", "auevent_sock_type"},
                  in : SockCodes, out : {NULL}]

SockDomain ==
    /\ sock.fn = "auevent_sock_domain"
    /\ sock.out = NULL
    /\ sock' = [sock EXCEPT !.out = Some(auevent_sock_domain(sock.in))]
    /\ UNCHANGED <<caller, errno, cs>>

SockType ==
    /\ sock.fn = "auevent_sock_type"
    /\ sock.out = NULL
    /\ sock' = [sock EXCEPT !.out = Some(auevent_sock_type(sock.in))]
    /\ UNCHANGED <<caller, errno, cs>>

NextSock ==
    \/ SockDomain
    \/ SockType

SpecSock == InitSock /\ [][NextSock]_vars

(***************************************************************************)
(* codesign_new, src/codesign.c lines 119-291, with codesign_free (lines   *)
(* 66-77) and cf_url and cf_cstr of src/cf.c.  The frame cs holds          *)
(*   pc        the statement the call stands before, "returned" at its end *)
(*   obj       the codesign_t the local cs points to, or NULL              *)
(*   rv        the last OSStatus                                           *)
(*   cf        for each CoreFoundation object: "none" (not acquired),      *)
(*             "held", "released"                                          *)
(*   blocks    the live malloc blocks of the codesign_t                    *)
(*   err       the misuses so far: a release of an object not held, a use  *)
(*             of an object not held, a free of a block not live           *)
(*   ret       what the call returned: "none" (still running), "NULL",     *)
(*             "cs"                                                        *)
(*   allocfail, valid, identstr, sat   what happened (history): an         *)
(*             allocation failed, the designated requirement validated,    *)
(*             the identifier was a string, the origin requirements the    *)
(*             code satisfies                                              *)
(***************************************************************************)
\* reqs[], lines 26-31, in the order of the array
reqs ==
    << "CODESIGN_ORIGIN_APPLE_SYSTEM", "CODESIGN_ORIGIN_MAC_APP_STORE",
       "CODESIGN_ORIGIN_DEVELOPER_ID", "CODESIGN_ORIGIN_APPLE_GENERIC" >>

\* the codesign_t after bzero, line 129
ZeroCodesign ==
    [result |-> "unset", error |-> "errSecSuccess", origin |-> "unset",
     ident |-> NULL, cdhash |-> NULL, teamid |-> NULL, devid |-> NULL]

CFRelease(c, k) ==
    IF c.cf[k] = "held"
    THEN [c EXCEPT !.cf[k] = "released"]
    ELSE [c EXCEPT !.err = @ \cup {<<"release", k, c.cf[k]>>}]

\* an object handed to a function
CFUse(c, k) ==
    IF c.cf[k] = "held" THEN c ELSE [c EXCEPT !.err = @ \cup {<<"use", k, c.cf[k]>>}]

CFHold(c, k) == [c EXCEPT !.cf[k] = "held"]

cs_free(c, b) ==
    IF c.blocks[b] > 0
    THEN [c EXCEPT !.blocks[b] = @ - 1]
    ELSE [c EXCEPT !.err = @ \cup {<<"free", b>>}]

cs_malloc(c, b) == [c EXCEPT !.blocks[b] = @ + 1]

\* codesign_free, lines 66-77
codesign_free(c) ==
    LET o  == c.obj[1]
        c1 == IF o.ident # NULL THEN cs_free(c, "ident") ELSE c
        c2 == IF o.cdhash # NULL THEN cs_free(c1, "cdhash") ELSE c1
        c3 == IF o.teamid # NULL THEN cs_free(c2, "teamid") ELSE c2
        c4 == IF o.devid # NULL THEN cs_free(c3, "devid") ELSE c3
    IN  cs_free(c4, "cs")

\* enomemout:, lines 286-290; errno is set by the action
enomemout(c) ==
    [(IF c.obj # NULL THEN codesign_free(c) ELSE c)
       EXCEPT !.ret = "NULL", !.pc = "returned"]

\* return cs;
ReturnCs(c) == [c EXCEPT !.ret = "cs", !.pc = "returned"]

SetObj(c, o) == [c EXCEPT !.obj = Some(o)]

\* cf_url, src/cf.c lines 142-157: NULL when CFStringCreateWithCString or
\* CFURLCreateWithFileSystemPath returns NULL.  The string is not created
\* for lack of memory or because the bytes of the path are not UTF-8.
CfUrlOutcomes == {"url", "nomem", "not_utf8"}

\* cf_cstr, src/cf.c lines 43-64: NULL when strdup or malloc fails, or when
\* CFStringGetCString cannot convert (the buffer is freed again)
CfCstrOutcomes == {"cstr", "nomem", "not_converted"}

\* the step every action of codesign_new ends with: errno = ENOMEM on the
\* way out through enomemout
CsStep(c) ==
    /\ cs' = c
    /\ errno' = IF c.ret = "NULL" THEN "ENOMEM" ELSE errno
    /\ UNCHANGED <<caller, sock>>

\* lines 126-129
CsMalloc ==
    /\ cs.pc = "malloc"
    /\ \E ok \in BOOLEAN :
         CsStep(IF ok
                THEN [cs_malloc(SetObj(cs, ZeroCodesign), "cs")
                        EXCEPT !.pc = "cf_url"]
                ELSE enomemout([cs EXCEPT !.allocfail = TRUE]))

\* lines 131-133
CsUrl ==
    /\ cs.pc = "cf_url"
    /\ \E r \in CfUrlOutcomes :
         CsStep(CASE r = "url" -> [CFHold(cs, "url") EXCEPT !.pc = "create"]
                  [] r = "nomem" -> enomemout([cs EXCEPT !.allocfail = TRUE])
                  [] OTHER -> enomemout(cs))

\* lines 135-142: the URL is released whatever SecStaticCodeCreateWithPath
\* returned
CsCreate ==
    /\ cs.pc = "create"
    /\ \E status \in {"errSecSuccess", "errSecOther"} :
         LET c1 == CFRelease(CFUse([cs EXCEPT !.rv = status], "url"), "url")
         IN  CsStep(IF status = "errSecSuccess"
                    THEN [CFHold(c1, "scode") EXCEPT !.pc = "designated"]
                    ELSE ReturnCs([c1 EXCEPT
                             !.obj[1].error = status,
                             !.obj[1].result = "CODESIGN_RESULT_ERROR"]))

\* lines 145-160
CsDesignated ==
    /\ cs.pc = "designated"
    /\ \E status \in {"errSecSuccess", "errSecCSUnsigned", "errSecOther"} :
         LET c1 == CFUse([cs EXCEPT !.rv = status], "scode")
         IN  CsStep(CASE status = "errSecSuccess" ->
                           [CFHold(c1, "designated_req")
                              EXCEPT !.pc = "validity"]
                      [] status = "errSecCSUnsigned" ->
                           ReturnCs(CFRelease(
                               [c1 EXCEPT !.obj[1].result =
                                              "CODESIGN_RESULT_UNSIGNED"],
                               "scode"))
                      [] OTHER ->
                           ReturnCs(CFRelease(
                               [c1 EXCEPT !.obj[1].error = status,
                                          !.obj[1].result =
                                              "CODESIGN_RESULT_ERROR"],
                               "scode")))

\* lines 161-174: the designated requirement is released whatever the
\* check returned
CsValidity ==
    /\ cs.pc = "validity"
    /\ \E status \in {"errSecSuccess", "errSecCSReqFailed"} :
         LET c1 == CFRelease(
                       CFUse(CFUse([cs EXCEPT !.rv = status], "scode"),
                             "designated_req"),
                       "designated_req")
         IN  CsStep(IF status = "errSecSuccess"
                    THEN [c1 EXCEPT !.valid = TRUE, !.pc = "info"]
                    ELSE ReturnCs(CFRelease(
                             [c1 EXCEPT !.obj[1].result =
                                            "CODESIGN_RESULT_BAD"],
                             "scode")))

\* lines 177-188: SecCodeCopySigningInformation hands out a dictionary,
\* succeeds without one, or fails
CsInfo ==
    /\ cs.pc = "info"
    /\ \E r \in {"dict", "no_dict", "errSecOther"} :
         LET status == IF r = "errSecOther" THEN r ELSE "errSecSuccess"
             c1 == CFUse([cs EXCEPT !.rv = status], "scode")
         IN  CsStep(IF r = "dict"
                    THEN [CFHold(c1, "dict") EXCEPT !.pc = "ident"]
                    ELSE ReturnCs(
                             [CFRelease(c1, "scode") EXCEPT
                                !.obj[1].error = status,
                                !.obj[1].result = "CODESIGN_RESULT_ERROR"]))

\* what CFDictionaryGetValue finds under a key
DictValues == {"absent", "other", "expected"}

\* lines 191-205
CsIdent ==
    /\ cs.pc = "ident"
    /\ \E ident \in DictValues, r \in CfCstrOutcomes :
         LET c1 == CFUse(cs, "dict")
         IN  CsStep(IF ident = "expected"
                    THEN CASE r = "cstr" ->
                                [cs_malloc(c1, "ident") EXCEPT
                                   !.obj[1].ident = Some("ident"),
                                   !.identstr = TRUE,
                                   !.pc = "reqs"]
                           [] OTHER ->
                                enomemout(CFRelease(CFRelease(
                                    [c1 EXCEPT !.identstr = TRUE,
                                               !.allocfail = @ \/ r = "nomem"],
                                    "scode"), "dict"))
                    ELSE ReturnCs(
                             [CFRelease(CFRelease(c1, "scode"), "dict")
                                EXCEPT !.obj[1].result =
                                           "CODESIGN_RESULT_BAD"]))

ScanReqsLast(i, sat, origin) ==
    LET ok == {j \in i..Len(reqs) : reqs[j] \in sat}
    IN  IF ok = {}
        THEN [rv |-> "errSecCSReqFailed", origin |-> origin]
        ELSE [rv |-> "errSecSuccess",
              origin |-> reqs[CHOOSE j \in ok : \A k \in ok : k <= j]]

\* the loop of lines 211-217 from index i on: the first requirement of
\* reqs[] the code satisfies sets the origin and ends the loop
RECURSIVE ScanReqs(_, _, _)
ScanReqs(i, sat, origin) ==
    IF i > Len(reqs)
    THEN [rv |-> "errSecCSReqFailed", origin |-> origin]
    ELSE IF reqs[i] \in sat
         THEN [rv |-> "errSecSuccess", origin |-> reqs[i]]
         ELSE ScanReqs(i + 1, sat, origin)

\* lines 207-227
CsReqs ==
    /\ cs.pc = "reqs"
    /\ \E sat \in SUBSET {reqs[i] : i \in 1..Len(reqs)} :
         LET scan == ScanReqs(1, sat, cs.obj[1].origin)
             c1 == CFRelease(
                       CFUse([cs EXCEPT !.rv = scan.rv, !.sat = sat,
                                        !.obj[1].origin = scan.origin],
                             "scode"),
                       "scode")
         IN  CsStep(IF scan.rv # "errSecSuccess"
                    THEN ReturnCs(
                             [cs_free(CFRelease(c1, "dict"), "ident") EXCEPT
                                !.obj[1].ident = NULL,
                                !.obj[1].result = "CODESIGN_RESULT_BAD"])
                    ELSE [c1 EXCEPT !.pc = "cdhash"])

\* lines 229-239
CsCdhash ==
    /\ cs.pc = "cdhash"
    /\ \E cdhash \in DictValues, ok \in BOOLEAN :
         LET c1 == CFUse(cs, "dict")
         IN  CsStep(IF cdhash = "expected"
                    THEN IF ok
                         THEN [cs_malloc(c1, "cdhash") EXCEPT
                                 !.obj[1].cdhash = Some("cdhash"),
                                 !.pc = "teamid"]
                         ELSE enomemout(CFRelease(
                                  [c1 EXCEPT !.allocfail = TRUE], "dict"))
                    ELSE [c1 EXCEPT !.pc = "teamid"])

\* lines 241-254
CsTeamid ==
    /\ cs.pc = "teamid"
    /\ IF cs.obj[1].origin = "CODESIGN_ORIGIN_APPLE_SYSTEM"
       THEN CsStep([cs EXCEPT !.pc = "out"])
       ELSE \E teamid \in DictValues, r \in CfCstrOutcomes :
              LET c1 == CFUse(cs, "dict")
              IN  CsStep(IF teamid = "expected"
                         THEN CASE r = "cstr" ->
                                     [cs_malloc(c1, "teamid") EXCEPT
                                        !.obj[1].teamid = Some("teamid"),
                                        !.pc = "devid"]
                                [] OTHER ->
                                     enomemout(CFRelease(
                                         [c1 EXCEPT !.allocfail =
                                                        @ \/ r = "nomem"],
                                         "dict"))
                         ELSE [c1 EXCEPT !.pc = "devid"])

\* SecCertificateCopySubjectSummary: a string, or NULL
SummaryOutcomes == {"s", "nomem", "no_summary"}

\* lines 256-279
CsDevid ==
    /\ cs.pc = "devid"
    /\ IF cs.obj[1].origin # "CODESIGN_ORIGIN_DEVELOPER_ID"
       THEN CsStep([cs EXCEPT !.pc = "out"])
       ELSE \E crt \in BOOLEAN, s \in SummaryOutcomes, r \in CfCstrOutcomes :
              LET c1 == CFUse(cs, "dict")
                  \* cs->devid = cf_cstr(s); CFRelease(s);
                  c2 == CFRelease(CFUse(CFHold(c1, "s"), "s"), "s")
              IN  CsStep(CASE ~crt -> [c1 EXCEPT !.pc = "out"]
                           [] crt /\ s # "s" ->
                                enomemout(CFRelease(
                                    [c1 EXCEPT !.allocfail =
                                                   @ \/ s = "nomem"],
                                    "dict"))
                           [] crt /\ s = "s" /\ r = "cstr" ->
                                [cs_malloc(c2, "devid") EXCEPT
                                   !.obj[1].devid = Some("devid"),
                                   !.pc = "out"]
                           [] OTHER ->
                                enomemout(CFRelease(
                                    [c2 EXCEPT !.allocfail =
                                                   @ \/ r = "nomem"],
                                    "dict")))

\* out:, lines 281-284
CsOut ==
    /\ cs.pc = "out"
    /\ CsStep(ReturnCs([CFRelease(cs, "dict") EXCEPT
                          !.obj[1].result = "CODESIGN_RESULT_GOOD"]))

NextCodesign ==
    \/ CsMalloc
    \/ CsUrl
    \/ CsCreate
    \/ CsDesignated
    \/ CsValidity
    \/ CsInfo
    \/ CsIdent
    \/ CsReqs
    \/ CsCdhash
    \/ CsTeamid
    \/ CsDevid
    \/ CsOut

InitCodesign ==
    /\ InitEvent
    /\ profile = {"misc"}
    /\ sock = NoSock
    /\ cs = CodesignEntry

SpecCodesign == InitCodesign /\ [][NextCodesign]_vars

(***************************************************************************)
(* Properties of auevent_fread.                                            *)
(***************************************************************************)

Produced == pc = "returned" /\ rv = 1
Skipped  == pc = "returned" /\ rv = 0

\* type is one of the entries of the zero-terminated list
Listed(type, list) ==
    \E i \in 1..Len(list) :
        /\ list[i] = type
        /\ \A j \in 1..i : list[j] # 0

\* C1: once a header whose event type is not in the supplied filter has
\* been decoded, the call has returned 0 at that header: no state exists in
\* which such a type is stored and the loop is still interpreting tokens or
\* the call returned anything else.
C1_FilteredHeaderIsSkipped ==
    (aues # NULL /\ ev.type # 0 /\ ~Listed(ev.type, aues[1]))
        => (Skipped /\ exitAt = "filter")

\* a filtered header that followed at least one other token
C1_FilteredHeaderSeen ==
    /\ Skipped
    /\ exitAt = "filter"
    /\ aues # NULL
    /\ ev.type = 1
    /\ recpos >= 1

\* C2: when the call returns 0 because of the filter, the event (apart from
\* the record buffer it owns) equals a freshly created event.
C2_FilteredEventIsFresh ==
    (Skipped /\ exitAt = "filter") => [ev EXCEPT !.recbuf = FALSE] = ZeroEvent

OverCapacity ==
    \/ seen.text > TextCap
    \/ seen.path > PathCap
    \/ seen.attr > AttrCap

\* C3: as soon as a record has carried more than four text tokens, more than
\* four path tokens or more than four attribute tokens, the call has
\* returned 0, and the token beyond the capacity was not stored.
C3_OverCapacityIsSkipped ==
    /\ OverCapacity => Skipped
    /\ textc <= TextCap
    /\ pathc <= PathCap
    /\ ev.attr_count <= AttrCap

\* a fifth text token after a header that passed the filter
C3_FifthTextSeen ==
    /\ Skipped
    /\ exitAt = "text_full"
    /\ seen.text = TextCap + 1
    /\ textc = TextCap
    /\ ev.type # 0

\* C4: no fixed-capacity array of the event is written at an index at or
\* beyond its capacity.
C4_NoWriteBeyondCapacity ==
    /\ ~oob
    /\ ev.args_count <= ArgsCap
    /\ textc <= TextCap
    /\ pathc <= PathCap
    /\ ev.attr_count <= AttrCap
    /\ Len(ev.unk_tokids) <= UnkCap

\* C5: the call never returns 1 for a record in which a second subject,
\* process, return or exit token replaced the fields of the first.
C5_SecondTokenNeverProduced ==
    Produced => seen.over \cap {"subject", "process", "return", "exit"} = {}

\* C6: in a build without assertions, a call that met a second subject,
\* process, return or exit token, or an argument token for a populated
\* index, ends by returning 0.
C6_ProductionSkipsViolation ==
    (/\ ndebug
     /\ seen.dup \cap {"subject", "process", "return", "exit", "arg"} # {}
     /\ pc # "loop")
        => Skipped

\* C7: once an allocation failure has set AEFLAG_ENOMEM, a call that
\* returns, returns -1.
C7_EnomemAlwaysFails ==
    (/\ seen.allocfail
     /\ "AEFLAG_ENOMEM" \in ev.flags
     /\ pc = "returned")
        => rv = -1

WellFormed ==
    /\ exitAt \notin {"read_error", "read_empty", "fetch_error", "filter"}
    /\ seen.dup \cap {"subject", "process", "return", "exit", "arg"} = {}
    /\ ~oob
    /\ seen.text <= TextCap
    /\ seen.path <= PathCap
    /\ seen.attr <= AttrCap
    /\ ~seen.allocfail

\* C8: a call on a well-formed record (tokens decode, the filter passes,
\* single-occurrence tokens at most once, argument indices distinct and in
\* range, at most four text, path and attribute tokens, no allocation
\* failure) ends by returning 1.
C8_WellFormedIsProduced ==
    (WellFormed /\ pc # "created" /\ pc # "loop") => Produced

\* C9: a populated argument slot keeps its value whatever token follows.
C9_FirstArgumentKept ==
    [][\A i \in 0..(ArgsCap - 1) :
          ev.args[i].present => ev'.args[i].value = ev.args[i].value]_vars

Populated == {i \in 0..(ArgsCap - 1) : ev.args[i].present}

\* C10: args_count is the highest populated argument index plus one, and 0
\* when no slot is populated.
C10_ArgsCountIsHighestPlusOne ==
    ev.args_count =
        IF Populated = {} THEN 0
        ELSE 1 + CHOOSE i \in Populated : \A j \in Populated : j <= i

\* C11: whenever au_fetch_tok has reported an error, the call has returned
\* 0 at that token: the token loop is over with the failing token and the
\* tokens behind it undecoded, and nothing was read again.
C11_DecodeErrorIsSkipped ==
    exitAt = "fetch_error" => (Skipped /\ recpos < reclen)

\* a decode error at the second token of a record of three
C11_DecodeErrorSeen ==
    /\ Skipped
    /\ exitAt = "fetch_error"
    /\ recpos = 1
    /\ reclen = 3

\* C12: when au_read_rec yields no record the event is still as created;
\* a read of 0 bytes returns 0 and a read error returns -1.
C12_NoRecordLeavesEventCreated ==
    /\ exitAt = "read_empty" => (Skipped /\ ev = ZeroEvent /\ recpos = 0)
    /\ exitAt = "read_error" =>
           (pc = "returned" /\ rv = -1 /\ ev = ZeroEvent /\ recpos = 0)

\* the read failed and the call returned the error
C12_ReadErrorSeen ==
    /\ pc = "returned"
    /\ exitAt = "read_error"
    /\ rv = -1
    /\ reclen = -1

IsDyld(s) == Len(s) >= 5 /\ SubSeq(s, 1, 5) = <<"D", "Y", "L", "D", "_">>

\* what the capture flags ask to keep of an exec_env token's entries;
\* a vector without entries is absent
Kept(v) ==
    LET kept == IF "AUEVENT_FLAG_ENV_DYLD" \in flags
                THEN SelectSeq(v, IsDyld)
                ELSE v
    IN  IF kept = <<>> THEN NULL ELSE Some(kept)

\* C13: without a capture flag execenv stays absent; with a capture flag,
\* after an exec_env token whose vector could be allocated, execenv holds
\* the token's DYLD_ entries in order (DYLD-only flag) or all its entries in
\* order (full flag).
C13_ExecEnvFollowsFlags ==
    /\ ~EnvCaptured => ev.execenv = NULL
    /\ (EnvCaptured /\ seen.env # NULL /\ ~seen.envfail)
           => ev.execenv = Kept(seen.env[1])

\* the DYLD-only flag kept the two DYLD_ entries of a three-entry token
C13_DyldEntriesKept ==
    /\ "AUEVENT_FLAG_ENV_DYLD" \in flags
    /\ seen.env = Some(<<STR_DYLD, STR_PATH, STR_DYLD_Y>>)
    /\ ev.execenv = Some(<<STR_DYLD, STR_DYLD_Y>>)
    /\ Produced

\* the device an identity holds came from a token with that identity:
\* absent for the null device, the token's device id otherwise
DevFromToken(proc) ==
    \E port \in {t.port : t \in TidSamples64} \cup {t.port : t \in TidExSamples} :
        /\ proc.pid = PidOf(port)
        /\ IF port = PortOf(devnull)
           THEN proc.dev = -1
           ELSE proc.dev >= 0 /\ PortOf(proc.dev) = port

\* C16: the device of a stored subject or process is absent (-1) when the
\* token's terminal device is the null device, and the token's device id,
\* unchanged, otherwise.
C16_NullDeviceIsAbsent ==
    /\ ev.subject_present => DevFromToken(ev.subject)
    /\ ev.process_present => DevFromToken(ev.process)

ZeroWords == <<0, 0, 0, 0>>

\* C17: the terminal address of a stored subject or process is absent
\* (family 0) unless its token carried a non-zero address.
C17_ZeroAddressIsAbsent ==
    /\ ev.subject_present =>
           (ev.subject.addr.family = "AF_UNSPEC" \/ ev.subject.addr.w # ZeroWords)
    /\ ev.process_present =>
           (ev.process.addr.family = "AF_UNSPEC" \/ ev.process.addr.w # ZeroWords)

\* a 16-bit number with its two bytes exchanged
Swapped(x) == 256 * (x % 256) + (x \div 256)

\* C18: the port stored with an IPv4 socket address is the port of a
\* 32-bit socket token with its bytes swapped; the port stored with an IPv6
\* socket address is the port of a 128-bit socket token as it came.
C18_SocketPortByteOrder ==
    /\ ev.sockinet_addr.family = "AF_INET" =>
           \E t \in SockSamples32 : ev.sockinet_port = Swapped(t.port)
    /\ ev.sockinet_addr.family = "AF_INET6" =>
           \E t \in SockSamples128 : ev.sockinet_port = t.port

\* an accepted 32-bit socket token with port 8080 (0x1f90) left 0x901f
C18_SwappedPortSeen ==
    /\ Produced
    /\ ev.sockinet_addr.family = "AF_INET"
    /\ ev.sockinet_port = 36895

\* the ids of h, each once, in the order of their first occurrence
FirstOccurrences(h) ==
    LET first == {i \in 1..Len(h) : \A j \in 1..(i - 1) : h[j] # h[i]}
        upto[n \in 0..Len(h)] ==
            IF n = 0 THEN <<>>
            ELSE IF n \in first THEN Append(upto[n - 1], h[n])
            ELSE upto[n - 1]
    IN  upto[Len(h)]

\* C20: after every step unk_tokids holds the distinct ids of the tokens
\* without a case, each once, in the order of their first occurrence; and
\* a step that decodes such a token changes no other field of the event
\* and, when it ends the record, returns what the event's flags say.
C20_UnknownIdsRecordedOnce ==
    [][/\ ev'.unk_tokids = FirstOccurrences(seen'.unk)
       /\ Len(ev'.unk_tokids) <= UnkCap
       /\ Len(seen'.unk) > Len(seen.unk) =>
              /\ [ev' EXCEPT !.unk_tokids = ev.unk_tokids] = ev
              /\ pc' = "returned" => rv' = Result(ev)]_vars

\* C21: once a header token has set the event's type, no later token of
\* the record changes the type, the modifier or the timestamp.
C21_HeaderFieldsSetOnce ==
    [][ev.type # 0 =>
           /\ ev'.type = ev.type
           /\ ev'.mod = ev.mod
           /\ ev'.tv = ev.tv]_vars

\* C25: AEFLAG_ENOMEM is set only if an allocation of this call failed.
C25_EnomemOnlyOnAllocationFailure ==
    "AEFLAG_ENOMEM" \in ev.flags => seen.allocfail

\* C23: a call reads one record and ends: inside the loop the cursor is
\* below the record length, every token moves it forward by the token's
\* length or ends the call, the record length never changes after the
\* read, a call that runs off the loop has its cursor at the record
\* length, and the loop is always left.
C23_OneReadAndLoopEnds ==
    /\ [](pc = "loop" => recpos < reclen)
    /\ []((pc = "returned" /\ exitAt = "end") => recpos = reclen)
    /\ [][pc = "loop" =>
              /\ reclen' = reclen
              /\ heap'.live["recbuf"] = heap.live["recbuf"]
              /\ \/ recpos' = recpos + 1
                 \/ pc' # "loop" /\ recpos' = recpos]_vars
    /\ (pc = "loop" ~> pc \in {"returned", "aborted"})

\* a record of three tokens was decoded to its end
C23_WholeRecordDecoded ==
    /\ pc = "returned"
    /\ exitAt = "end"
    /\ reclen = 3
    /\ recpos = 3

(***************************************************************************)
(* Properties of the life of an event.                                     *)
(***************************************************************************)

\* C14: after auevent_destroy, once or repeatedly, on an event that was
\* only created or that a read left in any state, the record buffer and
\* the exec vectors are released, their pointers are NULL and no block was
\* freed twice.
C14_DestroyReleasesAndNulls ==
    pc \in {"destroyed", "destroyed_twice"} =>
        /\ ~ev.recbuf
        /\ ev.execarg = NULL
        /\ ev.execenv = NULL
        /\ \A k \in Kinds : heap.live[k] = 0
        /\ "double_free" \notin heap.err

\* destroyed twice after a skipped read that had captured an environment
C14_SkippedEventDestroyedTwice ==
    /\ pc = "destroyed_twice"
    /\ rv = 0
    /\ exitAt = "fetch_error"
    /\ "AUEVENT_FLAG_ENV_FULL" \in flags
    /\ seen.env # NULL
    /\ ~seen.envfail

\* C15: over any number of create / read / destroy rounds no block is
\* freed twice or lost: the event never owns two blocks of a kind, every
\* live block is the one its pointer in the event refers to, and no block
\* is live when the event is created again.
C15_EveryBlockReleasedOnce ==
    /\ heap.err = {}
    /\ heap.live["recbuf"] = (IF ev.recbuf THEN 1 ELSE 0)
    /\ heap.live["execarg"] = (IF ev.execarg # NULL THEN 1 ELSE 0)
    /\ heap.live["execenv"] = (IF ev.execenv # NULL THEN 1 ELSE 0)

\* a second exec_args token replaced the vector of the first, and the
\* event was destroyed
C15_ReplacedVectorDestroyed ==
    /\ pc = "destroyed"
    /\ ndebug
    /\ "execarg" \in seen.dup
    /\ rv = 1
    /\ heap = NoHeap

AllLabels ==
    {<<n, 0>> : n \in {"subject_", "process_", "return_", "exit_", "execarg",
                       "execenv", "sockinet", "unk_tokids"}}
      \cup {<<"args", i>> : i \in 0..(ArgsCap - 1)}
      \cup {<<"text", i>> : i \in 0..(TextCap - 1)}
      \cup {<<"path", i>> : i \in 0..(PathCap - 1)}
      \cup {<<"attr", i>> : i \in 0..(AttrCap - 1)}

\* whether the field a label stands for is populated; a socket address is
\* populated when an inet or inet6 socket token was accepted
FieldPopulated(e, l) ==
    CASE l[1] = "subject_"   -> e.subject_present
      [] l[1] = "process_"   -> e.process_present
      [] l[1] = "return_"    -> e.return_present
      [] l[1] = "exit_"      -> e.exit_present # 0
      [] l[1] = "args"       -> e.args[l[2]].present
      [] l[1] = "text"       -> e.text[l[2]] # 0
      [] l[1] = "path"       -> e.path[l[2]] # 0
      [] l[1] = "attr"       -> l[2] < e.attr_count
      [] l[1] = "execarg"    -> e.execarg # NULL
      [] l[1] = "execenv"    -> e.execenv # NULL
      [] l[1] = "sockinet"   -> e.sockinet_addr.family # "AF_UNSPEC"
      [] l[1] = "unk_tokids" -> e.unk_tokids # <<>>

\* C19: the line auevent_fprint writes for an event whose tokens all
\* stored inside the event carries the label of a field if and only if the
\* field is populated.
C19_LabelsIffPopulated ==
    (pc = "printed" /\ ~oob) =>
        out = Some({l \in AllLabels : FieldPopulated(ev, l)})

\* C24: no text or path entry of the event points into a record buffer
\* that has been freed.
C24_NoPointerIntoFreedBuffer ==
    /\ \A i \in 0..(TextCap - 1) :
           ev.text[i] = InRecbuf => heap.live["recbuf"] > 0
    /\ \A i \in 0..(PathCap - 1) :
           ev.path[i] = InRecbuf => heap.live["recbuf"] > 0

(***************************************************************************)
(* C26: in the line auevent_fprint writes, the process block shows the     *)
(* terminal device as "-" exactly when the device of the process identity  *)
(* is absent, whatever the device of the subject is; and the subject block *)
(* shows "-" exactly when the device of the subject is absent.             *)
(***************************************************************************)
C26_DashIffOwnDeviceAbsent ==
    pc = "printed" =>
        /\ ev.subject_present =>
              (outdev.subject = Some(Dash) <=> ev.subject.dev = NoDev)
        /\ ev.process_present =>
              (outdev.process = Some(Dash) <=> ev.process.dev = NoDev)


(***************************************************************************)
(* Properties of auevent_sock_domain and auevent_sock_type.                *)
(***************************************************************************)
DomainTable ==
    {BSM_PF_UNSPEC, BSM_PF_LOCAL, BSM_PF_INET, BSM_PF_ROUTE, BSM_PF_KEY,
     BSM_PF_INET6}

TypeTable ==
    {BSM_SOCK_DGRAM, BSM_SOCK_STREAM, BSM_SOCK_RAW, BSM_SOCK_RDM,
     BSM_SOCK_SEQPACKET}

(***************************************************************************)
(* C22: auevent_sock_domain and auevent_sock_type return -1 for every code *)
(* outside their tables, the BSM codes for "unknown" (700 and 500)         *)
(* included; an unmapped code never yields a local constant, and the       *)
(* result 0 comes only from auevent_sock_domain(BSM_PF_UNSPEC).            *)
(***************************************************************************)
C22_UnmappedSockCodeIsMinusOne ==
    sock.out # NULL =>
        /\ (sock.fn = "auevent_sock_domain" /\ sock.in \notin DomainTable)
              => sock.out = Some(-1)
        /\ (sock.fn = "auevent_sock_type" /\ sock.in \notin TypeTable)
              => sock.out = Some(-1)
        /\ sock.out = Some(0)
              => (sock.fn = "auevent_sock_domain" /\ sock.in = BSM_PF_UNSPEC)

C22_UnknownCodesMapped ==
    /\ sock.out = Some(-1)
    /\ \/ sock.fn = "auevent_sock_domain" /\ sock.in = BSM_PF_UNKNOWN
       \/ sock.fn = "auevent_sock_type" /\ sock.in = BSM_SOCK_UNKNOWN


(***************************************************************************)
(* Properties of codesign_new.                                             *)
(***************************************************************************)
\* the first requirement, in the order Apple system, Mac App Store,
\* Developer ID, Apple generic, among those the code satisfies
FirstValidated(sat) ==
    CASE "CODESIGN_ORIGIN_APPLE_SYSTEM" \in sat ->
             "CODESIGN_ORIGIN_APPLE_SYSTEM"
      [] "CODESIGN_ORIGIN_MAC_APP_STORE" \in sat ->
             "CODESIGN_ORIGIN_MAC_APP_STORE"
      [] "CODESIGN_ORIGIN_DEVELOPER_ID" \in sat ->
             "CODESIGN_ORIGIN_DEVELOPER_ID"
      [] "CODESIGN_ORIGIN_APPLE_GENERIC" \in sat ->
             "CODESIGN_ORIGIN_APPLE_GENERIC"
      [] OTHER -> "unset"

(***************************************************************************)
(* C27: every object codesign_new returns is consistent.  Its result is    *)
(* GOOD only if the designated requirement validated, the identifier was a *)
(* string and one of the four origin requirements validated; then ident is *)
(* non-null and origin is the first requirement that validated.  When the  *)
(* result is not GOOD, origin is unset and ident, cdhash, teamid and devid *)
(* are null.  teamid is null when the origin is Apple system, and devid is *)
(* non-null only when the origin is Developer ID.                          *)
(***************************************************************************)
C27_ReturnedObjectIsConsistent ==
    (cs.pc = "returned" /\ cs.ret = "cs") =>
        LET o == cs.obj[1]
        IN  /\ o.result = "CODESIGN_RESULT_GOOD" =>
                  /\ cs.valid
                  /\ cs.identstr
                  /\ cs.sat # {}
                  /\ o.ident # NULL
                  /\ o.origin = FirstValidated(cs.sat)
            /\ o.result # "CODESIGN_RESULT_GOOD" =>
                  /\ o.origin = "unset"
                  /\ o.ident = NULL
                  /\ o.cdhash = NULL
                  /\ o.teamid = NULL
                  /\ o.devid = NULL
            /\ o.origin = "CODESIGN_ORIGIN_APPLE_SYSTEM" => o.teamid = NULL
            /\ o.devid # NULL => o.origin = "CODESIGN_ORIGIN_DEVELOPER_ID"

C27_GoodDeveloperIdReturned ==
    /\ cs.ret = "cs"
    /\ cs.obj[1].result = "CODESIGN_RESULT_GOOD"
    /\ cs.obj[1].origin = "CODESIGN_ORIGIN_DEVELOPER_ID"
    /\ cs.obj[1].devid # NULL
    /\ "CODESIGN_ORIGIN_APPLE_GENERIC" \in cs.sat

(***************************************************************************)
(* C28: on every return path of codesign_new each object it acquired (the  *)
(* URL, the static code, the designated requirement, the signing           *)
(* information, the certificate summary) has been released once, none is   *)
(* released twice or used after its release; and the call returns NULL     *)
(* only when an allocation failed, with errno ENOMEM and the partly built  *)
(* result freed with all the strings it owned.                             *)
(***************************************************************************)
C28_ReleasedOnceAndNullOnlyOnEnomem ==
    /\ cs.err = {}
    /\ cs.pc = "returned" => \A k \in CfKinds : cs.cf[k] # "held"
    /\ cs.ret = "NULL" =>
          /\ cs.allocfail
          /\ errno = "ENOMEM"
          /\ \A b \in CsBlocks : cs.blocks[b] = 0


====
